---- MODULE Spec2Model ----
(***************************************************************************)
(* Model of the inference orchestration layer of the Supertonic C++ port   *)
(* (src/cpp/helper.cpp): text chunking, mask algebra, latent scaffold,     *)
(* denoising loop and long-form stitching.                                 *)
(*                                                                         *)
(* Strings are sequences of one-character strings.  Durations are exact    *)
(* integers counted in units of 1/DurDen second, so that                   *)
(* static_cast<int>(d * sample_rate) is (d * sample_rate) \div DurDen.     *)
(***************************************************************************)
EXTENDS Integers, Sequences, FiniteSets, TLC

\* ------------------------------------------------------------------------
\* Bounds of the model
\* ------------------------------------------------------------------------
MaxTextLen == 6        \* longest text handed to chunkText in SpecChunk
MaxBudget == 6         \* largest max_len handed to chunkText in SpecChunk
MaxItems == 3          \* longest list of lengths handed to the mask functions
MaxLength == 4         \* largest length in a list handed to the mask functions
MaxChunkSize == 3      \* largest base_chunk_size / chunk_compress_factor
MaxBatch == 2          \* largest batch (texts, style vectors) of a pipeline run
MaxSteps == 2          \* largest total_step of a synthesis call
MaxDurPred == 2        \* the duration model predicts 0, 2, .. 2*MaxDurPred units
MaxSilence == 1        \* largest silence_duration, in duration units
MaxWavLen == 2         \* most samples per item in a vocoder output
DefaultMaxLen == 3     \* max_len of the chunkText call of TextToSpeech::call
MaxChars == 3          \* most characters of a text handed to preprocessText
MaxPairChars == 1      \* most characters of each text of a two-text list
MaxScaffoldDur == 7    \* longest duration handed to sampleNoisyLatent, in units

\* ------------------------------------------------------------------------
\* Characters
\* ------------------------------------------------------------------------
SP == " "
NL == "\n"
Space == {SP, NL}                 \* std::isspace / regex \s over the alphabet
Terminator == {".", "!", "?"}     \* the class [.!?] of sentence_regex
Alphabet == {"a", ".", SP, NL}

Strings(n) == UNION {[1..k -> Alphabet] : k \in 0..n}

\* ------------------------------------------------------------------------
\* trim (helper.cpp:26-38)
\* ------------------------------------------------------------------------
trim(str) ==
    LET size == Len(str)
        start == CHOOSE s \in 1..(size + 1) :
                    /\ \A k \in 1..(s - 1) : str[k] \in Space
                    /\ (s = size + 1 \/ str[s] \notin Space)
        end == CHOOSE e \in (start - 1)..size :
                    /\ \A k \in (e + 1)..size : str[k] \in Space
                    /\ (e = start - 1 \/ str[e] \notin Space)
    IN SubSeq(str, start, end)

\* ------------------------------------------------------------------------
\* The two regular expressions of chunkText.  A match is <<first, last>>,
\* the positions of its first and last character; <<0, 0>> is "no match".
\* ------------------------------------------------------------------------
NoMatch == <<0, 0>>

\* paragraph_regex  \n\s*\n+  anchored at position i (helper.cpp:935):
\* \s* is greedy and backtracks until a newline follows it.
ParagraphMatchAt(s, i) ==
    LET ends == {j \in (i + 1)..Len(s) :
                    s[j] = NL /\ \A k \in (i + 1)..j : s[k] \in Space}
    IN IF s[i] = NL /\ ends # {}
       THEN <<i, CHOOSE j \in ends : \A j2 \in ends : j2 <= j>>
       ELSE NoMatch

\* sentence_regex  [.!?]\s+  anchored at position i (helper.cpp:949)
SentenceMatchAt(s, i) ==
    IF s[i] \in Terminator /\ i + 1 <= Len(s) /\ s[i + 1] \in Space
    THEN <<i, CHOOSE j \in (i + 1)..Len(s) :
                 /\ \A k \in (i + 1)..j : s[k] \in Space
                 /\ (j = Len(s) \/ s[j + 1] \notin Space)>>
    ELSE NoMatch

\* std::regex_search from position `from`: the leftmost match
ParagraphSearch(s, from) ==
    LET starts == {i \in from..Len(s) : ParagraphMatchAt(s, i) # NoMatch}
    IN IF starts = {} THEN NoMatch
       ELSE ParagraphMatchAt(s, CHOOSE i \in starts : \A i2 \in starts : i <= i2)

SentenceSearch(s, from) ==
    LET starts == {i \in from..Len(s) : SentenceMatchAt(s, i) # NoMatch}
    IN IF starts = {} THEN NoMatch
       ELSE SentenceMatchAt(s, CHOOSE i \in starts : \A i2 \in starts : i <= i2)

\* std::sregex_token_iterator(..., -1): the pieces between the matches, each
\* with the position of its first character.  The piece after the last match
\* is produced only when it is not empty; a text without any match is
\* produced whole.
RECURSIVE ParagraphTokens(_, _, _)
ParagraphTokens(s, from, matched) ==
    LET m == ParagraphSearch(s, from)
    IN IF m = NoMatch
       THEN IF matched /\ from > Len(s) THEN <<>>
            ELSE <<[first |-> from, str |-> SubSeq(s, from, Len(s))]>>
       ELSE <<[first |-> from, str |-> SubSeq(s, from, m[1] - 1)]>>
            \o ParagraphTokens(s, m[2] + 1, TRUE)

RECURSIVE SentenceTokens(_, _, _)
SentenceTokens(s, from, matched) ==
    LET m == SentenceSearch(s, from)
    IN IF m = NoMatch
       THEN IF matched /\ from > Len(s) THEN <<>>
            ELSE <<[first |-> from, str |-> SubSeq(s, from, Len(s))]>>
       ELSE <<[first |-> from, str |-> SubSeq(s, from, m[1] - 1)]>>
            \o SentenceTokens(s, m[2] + 1, TRUE)

\* ------------------------------------------------------------------------
\* chunkText (helper.cpp:931-1000)
\* ------------------------------------------------------------------------
\* helper.cpp:939-945: the trimmed, non-empty pieces between paragraph breaks
RECURSIVE TrimmedNonEmpty(_)
TrimmedNonEmpty(tokens) ==
    IF tokens = <<>> THEN <<>>
    ELSE LET para == trim(Head(tokens).str)
         IN (IF para # <<>> THEN <<para>> ELSE <<>>) \o TrimmedNonEmpty(Tail(tokens))

Paragraphs(text) == TrimmedNonEmpty(ParagraphTokens(text, 1, FALSE))

\* helper.cpp:958-970: every non-empty piece, followed by the text of the
\* first sentence_regex match found from the start of the piece
RECURSIVE AddBackPunctuation(_, _)
AddBackPunctuation(paragraph, tokens) ==
    IF tokens = <<>> THEN <<>>
    ELSE LET tok == Head(tokens)
             m == SentenceSearch(paragraph, tok.first)
             sentence == IF m # NoMatch
                         THEN tok.str \o SubSeq(paragraph, m[1], m[2])
                         ELSE tok.str
         IN (IF tok.str # <<>> THEN <<sentence>> ELSE <<>>)
            \o AddBackPunctuation(paragraph, Tail(tokens))

Sentences(paragraph) ==
    AddBackPunctuation(paragraph, SentenceTokens(paragraph, 1, FALSE))

\* helper.cpp:976: the test that lets a sentence join the current chunk
FitsMissingCurrent(current_chunk, sentence, max_len) ==
    Len(sentence) + 1 <= max_len

FitsStrict(current_chunk, sentence, max_len) ==
    Len(current_chunk) + Len(sentence) + 1 < max_len

Fits(current_chunk, sentence, max_len) ==
    Len(current_chunk) + Len(sentence) + 1 <= max_len

\* helper.cpp:973-991: greedy packing of the sentences of one paragraph
RECURSIVE CombineSentences(_, _, _)
CombineSentences(sentences, current_chunk, max_len) ==
    IF sentences = <<>>
    THEN IF current_chunk # <<>> THEN <<trim(current_chunk)>> ELSE <<>>
    ELSE LET sentence == Head(sentences)
         IN IF Fits(current_chunk, sentence, max_len)
            THEN CombineSentences(Tail(sentences),
                    (IF current_chunk # <<>> THEN current_chunk \o <<SP>> ELSE <<>>)
                        \o sentence,
                    max_len)
            ELSE (IF current_chunk # <<>> THEN <<trim(current_chunk)>> ELSE <<>>)
                 \o CombineSentences(Tail(sentences), sentence, max_len)

\* the sentences of all paragraphs in one list
RECURSIVE SentencesOfAll(_)
SentencesOfAll(paragraphs) ==
    IF paragraphs = <<>> THEN <<>>
    ELSE Sentences(Head(paragraphs)) \o SentencesOfAll(Tail(paragraphs))

\* helper.cpp:951-992 with current_chunk declared before the loop over the
\* paragraphs and pushed once after it
ChunkParagraphsMerged(paragraphs, max_len) ==
    CombineSentences(SentencesOfAll(paragraphs), <<>>, max_len)

\* helper.cpp:951-992: the chunks of all paragraphs, in order
RECURSIVE ChunkParagraphs(_, _)
ChunkParagraphs(paragraphs, max_len) ==
    IF paragraphs = <<>> THEN <<>>
    ELSE CombineSentences(Sentences(Head(paragraphs)), <<>>, max_len)
         \o ChunkParagraphs(Tail(paragraphs), max_len)

chunkTextNoFallback(text, max_len) ==
    ChunkParagraphs(Paragraphs(text), max_len)

chunkText(text, max_len) ==
    LET chunks == ChunkParagraphs(Paragraphs(text), max_len)
    IN IF chunks = <<>> THEN <<trim(text)>> ELSE chunks

\* ------------------------------------------------------------------------
\* Mask algebra
\* ------------------------------------------------------------------------
\* std::max_element over a non-empty list
MaxElement(seq) ==
    CHOOSE m \in {seq[i] : i \in 1..Len(seq)} : \A i \in 1..Len(seq) : seq[i] <= m

\* lengthToMask (helper.cpp:582-599); max_len = -1 is the default argument.
\* mask[i][1][j + 1] models mask[i][0][j].
lengthToMaskOffByOne(lengths, max_len) ==
    LET width == IF max_len = -1 THEN MaxElement(lengths) ELSE max_len
    IN [b \in 1..Len(lengths) |->
          <<[i \in 1..width |-> IF (i - 1) <= lengths[b] THEN 1 ELSE 0]>>]

lengthToMask(lengths, max_len) ==
    LET width == IF max_len = -1 THEN MaxElement(lengths) ELSE max_len
    IN [b \in 1..Len(lengths) |->
          <<[i \in 1..width |-> IF (i - 1) < lengths[b] THEN 1 ELSE 0]>>]

\* getLatentMask (helper.cpp:601-612)
getLatentMaskFloor(wav_lengths, base_chunk_size, chunk_compress_factor) ==
    LET latent_size == base_chunk_size * chunk_compress_factor
        latent_lengths == [i \in 1..Len(wav_lengths) |->
                              wav_lengths[i] \div latent_size]
    IN lengthToMask(latent_lengths, -1)

getLatentMask(wav_lengths, base_chunk_size, chunk_compress_factor) ==
    LET latent_size == base_chunk_size * chunk_compress_factor
        latent_lengths == [i \in 1..Len(wav_lengths) |->
                              (wav_lengths[i] + latent_size - 1) \div latent_size]
    IN lengthToMask(latent_lengths, -1)

\* ------------------------------------------------------------------------
\* Bytes.  UnicodeProcessor works on std::string, a sequence of bytes: a
\* text is a sequence of numbers 0..255, the UTF-8 encoding of its
\* characters.  Ascii gives the byte of the ASCII characters the code names.
\* ------------------------------------------------------------------------
Ascii ==
    (NL :> 10) @@ (SP :> 32) @@ ("!" :> 33) @@ ("\"" :> 34) @@ ("#" :> 35)
    @@ ("'" :> 39) @@ (")" :> 41) @@ ("," :> 44) @@ ("-" :> 45) @@ ("." :> 46)
    @@ ("/" :> 47) @@ (":" :> 58) @@ (";" :> 59) @@ (">" :> 62) @@ ("?" :> 63)
    @@ ("@" :> 64) @@ ("[" :> 91) @@ ("]" :> 93) @@ ("_" :> 95)
    @@ ("a" :> 97) @@ ("e" :> 101) @@ ("f" :> 102)
    @@ ("g" :> 103) @@ ("h" :> 104) @@ ("i" :> 105) @@ ("l" :> 108)
    @@ ("m" :> 109) @@ ("o" :> 111) @@ ("p" :> 112) @@ ("r" :> 114)
    @@ ("s" :> 115) @@ ("t" :> 116) @@ ("x" :> 120) @@ ("|" :> 124)
    @@ ("}" :> 125)

\* the bytes of a string of ASCII characters
Bytes(str) == [k \in 1..Len(str) |-> Ascii[str[k]]]

\* the UTF-8 bytes of the non-ASCII literals of preprocessText
EnDash == <<226, 128, 147>>              \* U+2013
DoubleRightGuillemet == <<194, 187>>          \* U+00BB
Backslash == <<92>>                           \* the ASCII backslash
GraveAccent == <<96>>                         \* the ASCII backtick

\* std::isspace in the "C" locale, also the class \s of std::regex
IsSpaceByte(b) == b \in (9..13) \cup {32}

\* the range [\x80-\xBF] of the two byte patterns
ContinuationByte == 128..191

\* trim (helper.cpp:26-38) on a sequence of bytes
trimBytes(str) ==
    LET size == Len(str)
        start == CHOOSE s \in 1..(size + 1) :
                    /\ \A k \in 1..(s - 1) : IsSpaceByte(str[k])
                    /\ (s = size + 1 \/ ~IsSpaceByte(str[s]))
        end == CHOOSE e \in (start - 1)..size :
                    /\ \A k \in (e + 1)..size : IsSpaceByte(str[k])
                    /\ (e = start - 1 \/ ~IsSpaceByte(str[e]))
    IN SubSeq(str, start, end)

\* std::string::find(from, pos): the first position >= pos where `from`
\* occurs; 0 is npos.  Positions count from 1.
Find(s, from, pos) ==
    LET hits == {i \in pos..(Len(s) - Len(from) + 1) :
                    SubSeq(s, i, i + Len(from) - 1) = from}
    IN IF hits = {} THEN 0 ELSE CHOOSE i \in hits : \A j \in hits : i <= j

\* the find / replace / pos += strlen(to) loop (helper.cpp:95-101, 126-132)
RECURSIVE ReplaceLoop(_, _, _, _)
ReplaceLoop(result, from, to, pos) ==
    LET at == Find(result, from, pos)
    IN IF at = 0 THEN result
       ELSE ReplaceLoop(SubSeq(result, 1, at - 1) \o to
                            \o SubSeq(result, at + Len(from), Len(result)),
                        from, to, at + Len(to))

\* for (const auto& repl : table): one ReplaceLoop per row, in table order
\* (nothing occurs in an empty result, which every loop leaves as it is)
RECURSIVE ApplyReplacements(_, _)
ApplyReplacements(result, table) ==
    IF table = <<>> \/ result = <<>> THEN result
    ELSE ApplyReplacements(
            ReplaceLoop(result, Head(table).from, Head(table).to, 1),
            Tail(table))

\* the find / erase loop (helper.cpp:112-117); pos stays where it is
RECURSIVE EraseLoop(_, _, _)
EraseLoop(result, symbol, pos) ==
    LET at == Find(result, symbol, pos)
    IN IF at = 0 THEN result
       ELSE EraseLoop(SubSeq(result, 1, at - 1)
                          \o SubSeq(result, at + Len(symbol), Len(result)),
                      symbol, at)

RECURSIVE EraseSymbols(_, _)
EraseSymbols(result, symbols) ==
    IF symbols = <<>> \/ result = <<>> THEN result
    ELSE EraseSymbols(EraseLoop(result, Head(symbols), 1), Tail(symbols))

\* the regular expressions of preprocessText
emoji_pattern == [kind |-> "emoji"]             \* helper.cpp:61-65
diacritics_pattern == [kind |-> "diacritics"]   \* helper.cpp:105-107
whitespace_pattern == [kind |-> "whitespace"]   \* \s+ (helper.cpp:158)
Literal(lit) == [kind |-> "literal", lit |-> lit]

\* length of the match of the pattern anchored at position i, 0 if none
MatchLength(pattern, s, i) ==
    CASE pattern.kind = "emoji" ->
            IF /\ i + 2 <= Len(s)
               /\ \/ /\ s[i] \in {240, 159}
                     /\ s[i + 1] \in ContinuationByte
                     /\ s[i + 2] \in ContinuationByte
                  \/ /\ s[i] = 226
                     /\ s[i + 1] \in ContinuationByte
                     /\ s[i + 2] \in ContinuationByte
                  \/ /\ s[i] = 226
                     /\ s[i + 1] \in 152..158
                     /\ s[i + 2] \in ContinuationByte
            THEN 3 ELSE 0
      [] pattern.kind = "diacritics" ->
            IF /\ i + 1 <= Len(s)
               /\ s[i] \in {204, 205}
               /\ s[i + 1] \in ContinuationByte
            THEN 2 ELSE 0
      [] pattern.kind = "whitespace" ->
            IF IsSpaceByte(s[i])
            THEN (CHOOSE j \in i..Len(s) :
                     /\ \A k \in i..j : IsSpaceByte(s[k])
                     /\ (j = Len(s) \/ ~IsSpaceByte(s[j + 1]))) - i + 1
            ELSE 0
      [] pattern.kind = "literal" ->
            IF /\ i + Len(pattern.lit) - 1 <= Len(s)
               /\ SubSeq(s, i, i + Len(pattern.lit) - 1) = pattern.lit
            THEN Len(pattern.lit) ELSE 0

\* std::regex_replace(s, pattern, fmt): every match, found left to right
\* without overlap in one pass over s, is replaced by fmt
RECURSIVE RegexReplaceFrom(_, _, _, _)
RegexReplaceFrom(s, pattern, fmt, i) ==
    IF i > Len(s) THEN <<>>
    ELSE LET n == MatchLength(pattern, s, i)
         IN IF n = 0
            THEN <<s[i]>> \o RegexReplaceFrom(s, pattern, fmt, i + 1)
            ELSE fmt \o RegexReplaceFrom(s, pattern, fmt, i + n)

RegexReplace(s, pattern, fmt) == RegexReplaceFrom(s, pattern, fmt, 1)

\* helper.cpp:74-93
replacements ==
    << [from |-> EnDash, to |-> Bytes(<<"-">>)],
       [from |-> <<226, 128, 145>>, to |-> Bytes(<<"-">>)], \* U+2011 NonBreakingHyphen
       [from |-> <<226, 128, 148>>, to |-> Bytes(<<"-">>)], \* U+2014 EmDash
       [from |-> <<194, 175>>, to |-> Bytes(<<SP>>)],   \* U+00AF Macron
       [from |-> Bytes(<<"_">>), to |-> Bytes(<<SP>>)],
       [from |-> <<226, 128, 156>>, to |-> Bytes(<<"\"">>)], \* U+201C LeftDoubleQuote
       [from |-> <<226, 128, 157>>, to |-> Bytes(<<"\"">>)], \* U+201D RightDoubleQuote
       [from |-> <<226, 128, 152>>, to |-> Bytes(<<"'">>)], \* U+2018 LeftSingleQuote
       [from |-> <<226, 128, 153>>, to |-> Bytes(<<"'">>)], \* U+2019 RightSingleQuote
       [from |-> <<194, 180>>, to |-> Bytes(<<"'">>)],  \* U+00B4 AcuteAccent
       [from |-> GraveAccent, to |-> Bytes(<<"'">>)],
       [from |-> Bytes(<<"[">>), to |-> Bytes(<<SP>>)],
       [from |-> Bytes(<<"]">>), to |-> Bytes(<<SP>>)],
       [from |-> Bytes(<<"|">>), to |-> Bytes(<<SP>>)],
       [from |-> Bytes(<<"/">>), to |-> Bytes(<<SP>>)],
       [from |-> Bytes(<<"#">>), to |-> Bytes(<<SP>>)],
       [from |-> <<226, 134, 146>>, to |-> Bytes(<<SP>>)], \* U+2192 RightArrow
       [from |-> <<226, 134, 144>>, to |-> Bytes(<<SP>>)] >>   \* U+2190 LeftArrow

\* helper.cpp:111
special_symbols ==
    << <<226, 153, 165>>,     \* U+2665 black heart
       <<226, 152, 134>>,     \* U+2606 white star
       <<226, 153, 161>>,     \* U+2661 white heart
       <<194, 169>>,          \* U+00A9 copyright sign
       Backslash >>

\* helper.cpp:120-124
expr_replacements ==
    << [from |-> Bytes(<<"@">>), to |-> Bytes(<<SP, "a", "t", SP>>)],
       [from |-> Bytes(<<"e", ".", "g", ".", ",">>),
        to |-> Bytes(<<"f", "o", "r", SP, "e", "x", "a", "m", "p", "l", "e",
                       ",", SP>>)],
       [from |-> Bytes(<<"i", ".", "e", ".", ",">>),
        to |-> Bytes(<<"t", "h", "a", "t", SP, "i", "s", ",", SP>>)] >>

\* helper.cpp:135-141: the punctuation marks that lose one space before them,
\* in the order of the seven regex_replace calls
spaced_punctuation == <<",", ".", "!", "?", ";", ":", "'">>

RECURSIVE FixSpacing(_, _)
FixSpacing(result, marks) ==
    IF marks = <<>> \/ result = <<>> THEN result
    ELSE FixSpacing(
            RegexReplace(result, Literal(Bytes(<<SP, Head(marks)>>)),
                         Bytes(<<Head(marks)>>)),
            Tail(marks))

\* helper.cpp:144-155: while the doubled quote occurs, its first occurrence
\* is replaced by a single one
RECURSIVE RemoveDuplicate(_, _)
RemoveDuplicate(result, quote) ==
    LET at == Find(result, quote \o quote, 1)
    IN IF at = 0 THEN result
       ELSE RemoveDuplicate(SubSeq(result, 1, at - 1) \o quote
                                \o SubSeq(result, at + 2, Len(result)),
                            quote)

\* helper.cpp:164-169: the last characters that count as punctuation
ends_with_punct_chars ==
    {Ascii[c] : c \in {".", "!", "?", ";", ":", ",", "'", "\"", ")", "]", "}", ">"}}

\* helper.cpp:174-180: the literals last_three is compared with
ends_with_punct_literals ==
    { <<226, 128, 166>>,      \* U+2026 ellipsis
      <<227, 128, 130>>,      \* U+3002 ideographic full stop
      <<227, 128, 141>>,      \* U+300D right corner bracket
      <<227, 128, 143>>,      \* U+300F right white corner bracket
      <<227, 128, 145>>,      \* U+3011 right black lenticular bracket
      <<227, 128, 137>>,      \* U+3009 right angle bracket
      <<227, 128, 139>>,      \* U+300B right double angle bracket
      <<226, 128, 186>>,      \* U+203A single right guillemet
      DoubleRightGuillemet,   \* U+00BB, two bytes
      <<226, 128, 156>>,      \* U+201C left double quote
      <<226, 128, 157>>,      \* U+201D right double quote
      <<226, 128, 152>>,      \* U+2018 left single quote
      <<226, 128, 153>>  }    \* U+2019 right single quote

\* helper.cpp:162-183, for a non-empty result: last_three is a string of three
\* bytes, so it equals no literal of another length
EndsWithPunct(result) ==
    \/ result[Len(result)] \in ends_with_punct_chars
    \/ /\ Len(result) >= 3
       /\ \E lit \in ends_with_punct_literals :
             /\ Len(lit) = 3
             /\ SubSeq(result, Len(result) - 2, Len(result)) = lit

\* helper.cpp:54-159 of preprocessText: the text before the final period
CleanText(text) ==
    LET no_emoji == RegexReplace(text, emoji_pattern, <<>>)
        replaced == ApplyReplacements(no_emoji, replacements)
        no_diacritics == RegexReplace(replaced, diacritics_pattern, <<>>)
        no_symbols == EraseSymbols(no_diacritics, special_symbols)
        expanded == ApplyReplacements(no_symbols, expr_replacements)
        spaced == FixSpacing(expanded, spaced_punctuation)
        deduped == RemoveDuplicate(
                     RemoveDuplicate(
                       RemoveDuplicate(spaced, Bytes(<<"\"">>)),
                       Bytes(<<"'">>)),
                     GraveAccent)
    IN trimBytes(RegexReplace(deduped, whitespace_pattern, Bytes(<<SP>>)))

\* helper.cpp:161-188: the period is added to a non-empty text that does not
\* end with punctuation
AddPeriod(result) ==
    IF result # <<>> /\ ~EndsWithPunct(result)
    THEN result \o Bytes(<<".">>)
    ELSE result

\* UnicodeProcessor::preprocessText (helper.cpp:48-191)
preprocessText(text) == AddPeriod(CleanText(text))

\* UnicodeProcessor::textToUnicodeValues (helper.cpp:193-199): one uint16_t per
\* char of the std::string, the value of the byte
textToUnicodeValues(text) == [k \in 1..Len(text) |-> text[k]]

\* helper.cpp:224-233: one row of text_ids.  The row is resized to max_len
\* with 0; position j gets indexer_[unicode_vals[j]] when the value is below
\* indexer_.size() and keeps the 0 otherwise.  indexer[v + 1] models indexer_[v].
TextIdsRow(text, max_len, indexer) ==
    LET unicode_vals == textToUnicodeValues(text)
    IN [j \in 1..max_len |->
          IF j <= Len(unicode_vals) /\ unicode_vals[j] < Len(indexer)
          THEN indexer[unicode_vals[j] + 1]
          ELSE 0]

\* UnicodeProcessor::call (helper.cpp:207-236) for a non-empty text_list
UnicodeProcessorCall(text_list, indexer) ==
    LET processed_texts == [i \in 1..Len(text_list) |-> preprocessText(text_list[i])]
        text_ids_lengths == [i \in 1..Len(text_list) |-> Len(processed_texts[i])]
        max_len == MaxElement(text_ids_lengths)
    IN [processed_texts |-> processed_texts,
        text_ids |-> [i \in 1..Len(text_list) |->
                         TextIdsRow(processed_texts[i], max_len, indexer)],
        text_mask |-> lengthToMask(text_ids_lengths, -1)]

\* ------------------------------------------------------------------------
\* Configuration read at construction (helper.cpp:264-267) and the unit of
\* duration.  A duration d (in units of 1/DurDen second) is d / DurDen
\* seconds, so d * sample_rate_ samples are (d * sample_rate_) / DurDen.
\* ------------------------------------------------------------------------
DurDen == 2
sample_rate_ == 3
base_chunk_size_ == 5
chunk_compress_factor_ == 1
ldim_ == 1

\* values of the external collaborators
SpeedValues == {1, 2}                                \* speed
DurationValues == {2 * k : k \in 0..MaxDurPred}      \* duration model output
NoiseValues == {-1, 1}                               \* std::normal_distribution
DenoisedValues == {0, 1}                             \* denoised_latent cells
EmbValues == {1, 2}                                  \* text_emb cells
SampleValues == {1}                                  \* wav_tts samples

\* the texts of the pipeline runs: 1 (empty), 1, 2 and 3 chunks
PipelineTexts ==
    { <<>>,
      <<"a">>,
      <<"a", ".", SP, "a">>,
      <<"a", ".", SP, "a", ".", SP, "a">> }

\* static_cast<int>(d * sample_rate_) for a duration d >= 0 in units
Samples(d) == (d * sample_rate_) \div DurDen

\* helper.cpp:374-376 without the division
ApplySpeedSkipped(duration, speed) == duration

\* dur /= speed (helper.cpp:374-376); exact for the DurationValues
ApplySpeed(duration, speed) ==
    [b \in 1..Len(duration) |-> duration[b] \div speed]

\* helper.cpp:284 with the ceiling of the real quotient wav_len_max / chunk_size
LatentLenCeil(duration) ==
    LET chunk_size == base_chunk_size_ * chunk_compress_factor_
    IN (MaxElement(duration) * sample_rate_ + chunk_size * DurDen - 1)
           \div (chunk_size * DurDen)

\* helper.cpp:276-285 of sampleNoisyLatent: wav_len_max is a float that is not
\* truncated, latent_len = int((wav_len_max + chunk_size - 1) / chunk_size)
LatentLen(duration) ==
    LET chunk_size == base_chunk_size_ * chunk_compress_factor_
    IN (MaxElement(duration) * sample_rate_ + (chunk_size - 1) * DurDen)
           \div (chunk_size * DurDen)

LatentDim == ldim_ * chunk_compress_factor_

\* helper.cpp:279-282 with every item given the length of the first
WavLengthsOfFirst(duration) == [b \in 1..Len(duration) |-> Samples(duration[1])]

\* helper.cpp:279-282: wav_lengths
WavLengths(duration) == [b \in 1..Len(duration) |-> Samples(duration[b])]

\* the shapes a noise draw of sampleNoisyLatent can have (helper.cpp:292-301)
NoiseTensors(duration) ==
    [1..Len(duration) -> [1..LatentDim -> [1..LatentLen(duration) -> NoiseValues]]]

\* a read of latent_mask[b][0][t] past the end of the row (helper.cpp:309)
OutOfBounds == "out of bounds"

\* helper.cpp:270-313 without the loop that applies the mask (305-312)
sampleNoisyLatentUnmasked(duration, noise) ==
    [noisy_latent |-> noise,
     latent_mask |-> getLatentMask(WavLengths(duration),
                                   base_chunk_size_, chunk_compress_factor_)]

\* sampleNoisyLatent (helper.cpp:270-313) for the noise drawn by dist(gen)
sampleNoisyLatent(duration, noise) ==
    LET latent_mask == getLatentMask(WavLengths(duration),
                                     base_chunk_size_, chunk_compress_factor_)
    IN [noisy_latent |->
            [b \in 1..Len(duration) |->
                [d \in 1..LatentDim |->
                    [t \in 1..LatentLen(duration) |->
                        IF t <= Len(latent_mask[b][1])
                        THEN noise[b][d][t] * latent_mask[b][1][t]
                        ELSE OutOfBounds]]],
        latent_mask |-> latent_mask]

\* the data of a Style of bsz voices (helper.h: Style::getTtlData,
\* getDpData); row b of either tensor is distinct from every other row
StyleOf(bsz) == [ttl |-> [b \in 1..bsz |-> b], dp |-> [b \in 1..bsz |-> bsz + b]]

\* the indexer of the pipeline runs: every byte value has an id
PipelineIndexer == [v \in 1..256 |-> v]

\* the text_emb tensors the text encoder can return for bsz texts
TextEmbeddings(bsz) == {[b \in 1..bsz |-> v] : v \in EmbValues}

\* helper.cpp:436-478 with total_step_vec replaced by the steps that remain
VectorEstInputsRemaining(text_emb, style_ttl, mask, lmask, nsteps, current, bsz) ==
    [text_emb |-> text_emb,
     style_ttl |-> style_ttl,
     text_mask |-> mask,
     latent_mask |-> lmask,
     total_step |-> [b \in 1..bsz |-> nsteps - current],
     current_step |-> [b \in 1..bsz |-> current]]

\* vector_est_inputs of one iteration (helper.cpp:436-478), by input name:
\* the input tensors of vector_est_ort_->Run other than noisy_latent, which
\* is built from xt
VectorEstInputs(text_emb, style_ttl, mask, lmask, nsteps, current, bsz) ==
    [text_emb |-> text_emb,
     style_ttl |-> style_ttl,
     text_mask |-> mask,
     latent_mask |-> lmask,
     total_step |-> [b \in 1..bsz |-> nsteps],
     current_step |-> [b \in 1..bsz |-> current]]

\* the tensors a model can return for an input of the shape of xt
DenoisedTensors(xt) ==
    [1..Len(xt) -> [1..Len(xt[1]) -> [1..Len(xt[1][1]) -> DenoisedValues]]]

\* wav_tts [bsz, P] flattened, for every P within the bound
Waveforms(bsz) ==
    UNION {[1..(bsz * P) -> SampleValues] : P \in 0..MaxWavLen}

\* the condition of the denoising loop (helper.cpp:435)
LoopContinuesOffByOne(step, total_step) == step <= total_step

LoopContinues(step, total_step) == step < total_step

\* helper.cpp:494-503: xt is overwritten cell by cell with denoised_latent
UpdateLatentKeepsOld(xt_old, denoised) == xt_old

\* helper.cpp:494-503 with the loop over b stopped after the first item
UpdateLatentFirstItem(xt_old, denoised) ==
    [b \in 1..Len(xt_old) |-> IF b = 1 THEN denoised[b] ELSE xt_old[b]]

UpdateLatent(xt_old, denoised) == denoised

\* the check of TextToSpeech::call (helper.cpp:538)
CallStyleMismatchUnchecked(style_bsz) == FALSE

CallStyleMismatch(style_bsz) == style_bsz # 1

\* the check of TextToSpeech::_infer (helper.cpp:322-326)
InferStyleMismatch(bsz, style_bsz) == bsz # style_bsz

\* what a synthesis call hands back when an exception leaves it: nothing.
\* Neither _infer nor call catches (helper.cpp:364, 397, 488, 513, 547).
NoResult == [returned |-> FALSE, wav |-> <<>>, duration |-> <<>>]

AbortKeepsPartial(wav_cat, dur_cat) ==
    [returned |-> TRUE, wav |-> wav_cat, duration |-> <<dur_cat>>]

Abort(wav_cat, dur_cat) == NoResult

Zeros(n) == [i \in 1..n |-> 0]

\* ------------------------------------------------------------------------
\* State
\* ------------------------------------------------------------------------
VARIABLES
    ck_pc,        \* chunkText: "ready" before the call, "done" after it
    ck_text,      \* chunkText: the argument text
    ck_max_len,   \* chunkText: the argument max_len
    ck_chunks,    \* chunkText: the returned chunks
    mk_pc,        \* mask functions: "ready", or the function that returned
    mk_lengths,   \* mask functions: the argument lengths / wav_lengths
    mk_base_chunk_size,        \* getLatentMask: argument
    mk_chunk_compress_factor,  \* getLatentMask: argument
    mk_mask,      \* mask functions: the returned mask
    pc,           \* position of the synthesis call
    mode,         \* "longform" (TextToSpeech::call) or "batch" (TextToSpeech::batch)
    in_texts,     \* the text of call (one item) or the text_list of batch
    style_bsz,    \* style.getTtlShape()[0]
    style,        \* the caller's Style: the data of its ttl and dp tensors
    total_step,   \* argument total_step
    speed,        \* argument speed
    silence_duration,  \* argument silence_duration, in duration units
    text_list,    \* call: the chunks returned by chunkText
    chunk_i,      \* call: index of the chunk being synthesized (1 in batch mode)
    text_mask,    \* _infer: text_mask, as text_processor_->call returned it
    text_emb_vec, \* _infer: the output of the text encoder, kept for the loop
    vector_est_inputs,  \* history: inputs of the denoiser Runs of this _infer, but xt
    predicted,    \* _infer: duration as the duration predictor returned it
    duration,     \* _infer: duration, after the division by speed
    xt,           \* _infer: the working latent [bsz][latent_dim][latent_len]
    latent_mask,  \* _infer: latent_mask
    step,         \* _infer: the loop variable of the denoising loop
    infer_result, \* the SynthesisResult returned by the last _infer
    wav_cat,      \* call: wav_cat
    dur_cat,      \* call: dur_cat
    result,       \* what the synthesis call returned to its caller
    error,        \* the exception that left the synthesis call, or "none"
    calls,        \* history: the Run invocations on the four sessions, in order
    last_denoised,  \* the denoised_latent of the latest denoiser Run
    vocoder_in,   \* the latent handed to the latest vocoder Run
    chunk_results,  \* history: the results _infer returned to call, in order
    chunk_starts, \* history: the index of wav_cat at which each result.wav begins
    normalized,   \* history: number of texts passed to preprocessText
    chunked,      \* history: chunkText has been called
    g_tensor_buffers_float,  \* number of buffers in g_tensor_buffers_float
    g_tensor_buffers_int64,  \* number of buffers in g_tensor_buffers_int64
    up_pc,        \* UnicodeProcessor: "ready", or the function that returned
    up_text_list, \* UnicodeProcessor: the argument text_list (texts are bytes)
    up_indexer,   \* UnicodeProcessor: indexer_, the table loaded at construction
    up_result,    \* preprocessText(text_list[0])
    up_result2,   \* preprocessText applied to up_result
    up_processed_texts,  \* call: processed_texts
    up_text_ids,  \* call: the output text_ids
    up_text_mask,  \* call: the output text_mask
    seg_pc,       \* segment extraction: "ready", or the code that ran
    seg_wav,      \* segment extraction: the flattened vocoder output [bsz, P]
    seg_duration, \* segment extraction: the duration of the item, in units
    seg_bsz,      \* segment extraction: the batch size
    seg_index,    \* segment extraction: the item, 0 .. bsz - 1
    seg_out,      \* segment extraction: the samples handed to the caller
    seg_read,     \* history: the positions of the waveform that were read
    snl_pc,       \* sampleNoisyLatent: "ready", "sampled", "permuted"
    snl_duration, \* sampleNoisyLatent: the argument duration
    snl_noise,    \* sampleNoisyLatent: what dist(gen) draws, per cell
    snl_perm,     \* a permutation of the batch items
    snl_out,      \* sampleNoisyLatent(duration): noisy_latent, latent_mask
    snl_permuted  \* sampleNoisyLatent of the permuted batch
ckVars == <<ck_pc, ck_text, ck_max_len, ck_chunks>>
mkVars == <<mk_pc, mk_lengths, mk_base_chunk_size, mk_chunk_compress_factor, mk_mask>>
inputVars == <<mode, in_texts, style_bsz, style, total_step, speed, silence_duration>>
inferVars == <<text_mask, text_emb_vec, vector_est_inputs, predicted, duration, xt,
              latent_mask, step, last_denoised, vocoder_in>>
callVars == <<text_list, chunk_i, wav_cat, dur_cat, chunk_results, chunk_starts,
             chunked>>
bufferVars == <<g_tensor_buffers_float, g_tensor_buffers_int64>>
ttsVars == <<pc, inputVars, inferVars, callVars, bufferVars,
             infer_result, result, error, calls, normalized>>
upVars == <<up_pc, up_text_list, up_indexer, up_result, up_result2,
            up_processed_texts, up_text_ids, up_text_mask>>
segVars == <<seg_pc, seg_wav, seg_duration, seg_bsz, seg_index, seg_out, seg_read>>
snlVars == <<snl_pc, snl_duration, snl_noise, snl_perm, snl_out, snl_permuted>>
vars == <<ckVars, mkVars, upVars, ttsVars, segVars, snlVars>>

\* what the actions of one family leave alone
notChunkVars == <<mkVars, upVars, ttsVars, segVars, snlVars>>
notMaskVars == <<ckVars, upVars, ttsVars, segVars, snlVars>>
notTextVars == <<ckVars, mkVars, ttsVars, segVars, snlVars>>
notPipelineVars == <<ckVars, mkVars, upVars, segVars, snlVars>>
notSegmentVars == <<ckVars, mkVars, upVars, ttsVars, snlVars>>
notScaffoldVars == <<ckVars, mkVars, upVars, ttsVars, segVars>>

ChunkIdle ==
    /\ ck_pc = "idle"
    /\ ck_text = <<>>
    /\ ck_max_len = 0
    /\ ck_chunks = <<>>

MaskIdle ==
    /\ mk_pc = "idle"
    /\ mk_lengths = <<>>
    /\ mk_base_chunk_size = 1
    /\ mk_chunk_compress_factor = 1
    /\ mk_mask = <<>>

TextIdle ==
    /\ up_pc = "idle"
    /\ up_text_list = <<>>
    /\ up_indexer = <<>>
    /\ up_result = <<>>
    /\ up_result2 = <<>>
    /\ up_processed_texts = <<>>
    /\ up_text_ids = <<>>
    /\ up_text_mask = <<>>

SegmentIdle ==
    /\ seg_pc = "idle"
    /\ seg_wav = <<>>
    /\ seg_duration = 0
    /\ seg_bsz = 1
    /\ seg_index = 0
    /\ seg_out = <<>>
    /\ seg_read = {}

ScaffoldIdle ==
    /\ snl_pc = "idle"
    /\ snl_duration = <<>>
    /\ snl_noise = <<>>
    /\ snl_perm = <<>>
    /\ snl_out = <<>>
    /\ snl_permuted = <<>>

PipelineIdle ==
    /\ pc = "idle"
    /\ mode = "batch"
    /\ in_texts = <<>>
    /\ style_bsz = 1
    /\ style = StyleOf(1)
    /\ total_step = 0
    /\ speed = 1
    /\ silence_duration = 0
    /\ text_list = <<>>
    /\ chunk_i = 1
    /\ text_mask = <<>>
    /\ text_emb_vec = <<>>
    /\ vector_est_inputs = <<>>
    /\ predicted = <<>>
    /\ duration = <<>>
    /\ xt = <<>>
    /\ latent_mask = <<>>
    /\ step = 0
    /\ infer_result = NoResult
    /\ wav_cat = <<>>
    /\ dur_cat = 0
    /\ result = NoResult
    /\ error = "none"
    /\ calls = <<>>
    /\ last_denoised = <<>>
    /\ vocoder_in = <<>>
    /\ chunk_results = <<>>
    /\ chunk_starts = <<>>
    /\ normalized = 0
    /\ chunked = FALSE
    /\ g_tensor_buffers_float = 0
    /\ g_tensor_buffers_int64 = 0

\* ------------------------------------------------------------------------
\* SpecChunk: chunkText applied to every text and budget within the bounds
\* ------------------------------------------------------------------------
InitChunk ==
    /\ ck_pc = "ready"
    /\ ck_text \in Strings(MaxTextLen)
    /\ ck_max_len \in 0..MaxBudget
    /\ ck_chunks = <<>>
    /\ MaskIdle
    /\ TextIdle
    /\ PipelineIdle
    /\ SegmentIdle
    /\ ScaffoldIdle

ChunkTextCall ==
    /\ ck_pc = "ready"
    /\ ck_chunks' = chunkText(ck_text, ck_max_len)
    /\ ck_pc' = "done"
    /\ UNCHANGED <<ck_text, ck_max_len>>
    /\ UNCHANGED notChunkVars

NextChunk == ChunkTextCall

SpecChunk == InitChunk /\ [][NextChunk]_vars

\* ------------------------------------------------------------------------
\* SpecMask: lengthToMask and getLatentMask applied to every non-empty list
\* of non-negative lengths within the bounds
\* ------------------------------------------------------------------------
InitMask ==
    /\ mk_pc = "ready"
    /\ mk_lengths \in UNION {[1..n -> 0..MaxLength] : n \in 1..MaxItems}
    /\ mk_base_chunk_size \in 1..MaxChunkSize
    /\ mk_chunk_compress_factor \in 1..MaxChunkSize
    /\ mk_mask = <<>>
    /\ ChunkIdle
    /\ TextIdle
    /\ PipelineIdle
    /\ SegmentIdle
    /\ ScaffoldIdle

LengthToMaskCall ==
    /\ mk_pc = "ready"
    /\ mk_mask' = lengthToMask(mk_lengths, -1)
    /\ mk_pc' = "lengthToMask"
    /\ UNCHANGED <<mk_lengths, mk_base_chunk_size, mk_chunk_compress_factor>>
    /\ UNCHANGED notMaskVars

GetLatentMaskCall ==
    /\ mk_pc = "ready"
    /\ mk_mask' = getLatentMask(mk_lengths, mk_base_chunk_size, mk_chunk_compress_factor)
    /\ mk_pc' = "getLatentMask"
    /\ UNCHANGED <<mk_lengths, mk_base_chunk_size, mk_chunk_compress_factor>>
    /\ UNCHANGED notMaskVars

NextMask == LengthToMaskCall \/ GetLatentMaskCall

SpecMask == InitMask /\ [][NextMask]_vars

\* ------------------------------------------------------------------------
\* SpecText: preprocessText and UnicodeProcessor::call applied to every text
\* list within the bounds
\* ------------------------------------------------------------------------
\* the characters of the texts: a letter, the two kinds of whitespace, two
\* ASCII punctuation marks and three non-ASCII characters
EAcute == <<195, 169>>                   \* U+00E9
TextChars ==
    {Bytes(<<"a">>), Bytes(<<SP>>), Bytes(<<NL>>), Bytes(<<".">>), Bytes(<<"'">>),
     EnDash, EAcute, DoubleRightGuillemet}

\* the texts of at most n characters
RECURSIVE Texts(_)
Texts(n) ==
    IF n = 0 THEN {<<>>}
    ELSE Texts(n - 1) \cup {t \o c : t \in Texts(n - 1), c \in TextChars}

\* indexer tables: one covers the ASCII values only, one every byte value;
\* the id of value v is v + 1
IndexerTables == {[v \in 1..n |-> v] : n \in {128, 256}}

InitText ==
    /\ up_pc = "ready"
    /\ up_text_list \in
          {<<t>> : t \in Texts(MaxChars)}
             \cup {<<t1, t2>> : t1 \in Texts(MaxPairChars), t2 \in Texts(MaxPairChars)}
    /\ up_indexer \in IndexerTables
    /\ up_result = <<>>
    /\ up_result2 = <<>>
    /\ up_processed_texts = <<>>
    /\ up_text_ids = <<>>
    /\ up_text_mask = <<>>
    /\ ChunkIdle
    /\ MaskIdle
    /\ PipelineIdle
    /\ SegmentIdle
    /\ ScaffoldIdle

PreprocessTextCall ==
    /\ up_pc = "ready"
    /\ up_result' = preprocessText(up_text_list[1])
    /\ up_pc' = "preprocessText"
    /\ UNCHANGED <<up_text_list, up_indexer, up_result2, up_processed_texts,
                   up_text_ids, up_text_mask>>
    /\ UNCHANGED notTextVars

PreprocessTextAgain ==
    /\ up_pc = "preprocessText"
    /\ up_result2' = preprocessText(up_result)
    /\ up_pc' = "preprocessText again"
    /\ UNCHANGED <<up_text_list, up_indexer, up_result, up_processed_texts,
                   up_text_ids, up_text_mask>>
    /\ UNCHANGED notTextVars

CallUnicodeProcessor ==
    /\ up_pc = "ready"
    /\ LET out == UnicodeProcessorCall(up_text_list, up_indexer)
       IN /\ up_processed_texts' = out.processed_texts
          /\ up_text_ids' = out.text_ids
          /\ up_text_mask' = out.text_mask
    /\ up_pc' = "call"
    /\ UNCHANGED <<up_text_list, up_indexer, up_result, up_result2>>
    /\ UNCHANGED notTextVars

NextText ==
    \/ PreprocessTextCall
    \/ PreprocessTextAgain
    \/ CallUnicodeProcessor

SpecText == InitText /\ [][NextText]_vars

\* ------------------------------------------------------------------------
\* SpecPipeline: one synthesis call, long-form (TextToSpeech::call) or batch
\* (TextToSpeech::batch), with the four sessions as external collaborators
\* whose Run either throws or returns a value of the contracted shape
\* ------------------------------------------------------------------------
InitPipeline ==
    /\ pc = "start"
    /\ mode \in {"longform", "batch"}
    /\ IF mode = "longform"
       THEN /\ in_texts \in {<<t>> : t \in PipelineTexts}
            /\ silence_duration \in 0..MaxSilence
       ELSE /\ in_texts \in {[b \in 1..n |-> <<"a">>] : n \in 1..MaxBatch}
            /\ silence_duration = 0
    /\ style_bsz \in 1..MaxBatch
    /\ style = StyleOf(style_bsz)
    /\ total_step \in 0..MaxSteps
    /\ speed \in SpeedValues
    /\ text_list = <<>>
    /\ chunk_i = 1
    /\ text_mask = <<>>
    /\ text_emb_vec = <<>>
    /\ vector_est_inputs = <<>>
    /\ predicted = <<>>
    /\ duration = <<>>
    /\ xt = <<>>
    /\ latent_mask = <<>>
    /\ step = 0
    /\ infer_result = NoResult
    /\ wav_cat = <<>>
    /\ dur_cat = 0
    /\ result = NoResult
    /\ error = "none"
    /\ calls = <<>>
    /\ last_denoised = <<>>
    /\ vocoder_in = <<>>
    /\ chunk_results = <<>>
    /\ chunk_starts = <<>>
    /\ normalized = 0
    /\ chunked = FALSE
    /\ g_tensor_buffers_float = 0
    /\ g_tensor_buffers_int64 = 0
    /\ ChunkIdle
    /\ MaskIdle
    /\ TextIdle
    /\ SegmentIdle
    /\ ScaffoldIdle

\* the text_list argument of the current _infer (helper.cpp:547, 575)
InferTexts == IF mode = "batch" THEN in_texts ELSE <<text_list[chunk_i]>>

Invocation(model, current_step, ok) ==
    [model |-> model, run |-> chunk_i, current_step |-> current_step, ok |-> ok]

\* an exception leaves the synthesis call (no handler in _infer, call, batch)
Throw(what) ==
    /\ pc' = "error"
    /\ error' = what
    /\ result' = Abort(wav_cat, dur_cat)

\* TextToSpeech::call, helper.cpp:538-544: style check, chunkText, wav_cat
CallEntry ==
    /\ pc = "start"
    /\ mode = "longform"
    /\ IF CallStyleMismatch(style_bsz)
       THEN /\ Throw("InputMismatch")
            /\ UNCHANGED callVars
       ELSE /\ text_list' = chunkText(in_texts[1], DefaultMaxLen)
            /\ chunked' = TRUE
            /\ wav_cat' = <<>>
            /\ dur_cat' = 0
            /\ chunk_i' = 1
            /\ pc' = "infer"
            /\ UNCHANGED <<chunk_results, chunk_starts, result, error>>
    /\ UNCHANGED <<inputVars, inferVars, bufferVars, infer_result, calls, normalized>>
    /\ UNCHANGED notPipelineVars

\* TextToSpeech::batch, helper.cpp:568-576
BatchEntry ==
    /\ pc = "start"
    /\ mode = "batch"
    /\ pc' = "infer"
    /\ UNCHANGED <<inputVars, inferVars, callVars, bufferVars,
                   infer_result, result, error, calls, normalized>>
    /\ UNCHANGED notPipelineVars

\* _infer, helper.cpp:322-362: batch check, text processing, input tensors
InferBegin ==
    /\ pc = "infer"
    /\ IF InferStyleMismatch(Len(InferTexts), style_bsz)
       THEN /\ Throw("InputMismatch")
            /\ UNCHANGED <<normalized, bufferVars, text_mask>>
       ELSE /\ normalized' = normalized + Len(InferTexts)
            /\ text_mask' = UnicodeProcessorCall(
                                [b \in 1..Len(InferTexts) |-> Bytes(InferTexts[b])],
                                PipelineIndexer).text_mask
            /\ g_tensor_buffers_int64' = g_tensor_buffers_int64 + 1
            /\ g_tensor_buffers_float' = g_tensor_buffers_float + 1
            /\ pc' = "duration_predictor"
            /\ UNCHANGED <<result, error>>
    /\ UNCHANGED <<inputVars, text_emb_vec, vector_est_inputs, predicted, duration,
                   xt, latent_mask, step, last_denoised, vocoder_in,
                   callVars, infer_result, calls>>
    /\ UNCHANGED notPipelineVars

\* _infer, helper.cpp:364-395: dp_ort_->Run, duration /= speed, new tensors
RunDurationPredictor ==
    /\ pc = "duration_predictor"
    /\ \/ /\ calls' = Append(calls, Invocation("duration_predictor", <<>>, FALSE))
          /\ Throw("ModelExecution")
          /\ UNCHANGED <<predicted, duration, bufferVars>>
       \/ \E output \in [1..Len(InferTexts) -> DurationValues] :
             /\ calls' = Append(calls, Invocation("duration_predictor", <<>>, TRUE))
             /\ predicted' = output
             /\ duration' = ApplySpeed(output, speed)
             /\ g_tensor_buffers_int64' = g_tensor_buffers_int64 + 1
             /\ g_tensor_buffers_float' = g_tensor_buffers_float + 1
             /\ pc' = "text_encoder"
             /\ UNCHANGED <<result, error>>
    /\ UNCHANGED <<inputVars, text_mask, text_emb_vec, vector_est_inputs, xt,
                   latent_mask, step, last_denoised, vocoder_in,
                   callVars, infer_result, normalized>>
    /\ UNCHANGED notPipelineVars

\* _infer, helper.cpp:397-432: text_enc_ort_->Run, sampleNoisyLatent, step = 0
RunTextEncoder ==
    /\ pc = "text_encoder"
    /\ \/ /\ calls' = Append(calls, Invocation("text_encoder", <<>>, FALSE))
          /\ Throw("ModelExecution")
          /\ UNCHANGED <<xt, latent_mask, step, text_emb_vec, vector_est_inputs>>
       \/ \E noise \in NoiseTensors(duration), text_emb \in TextEmbeddings(Len(InferTexts)) :
             LET sampled == sampleNoisyLatent(duration, noise)
             IN /\ calls' = Append(calls, Invocation("text_encoder", <<>>, TRUE))
                /\ text_emb_vec' = text_emb
                /\ vector_est_inputs' = <<>>
                /\ xt' = sampled.noisy_latent
                /\ latent_mask' = sampled.latent_mask
                /\ step' = 0
                /\ pc' = "denoise"
                /\ UNCHANGED <<result, error>>
    /\ UNCHANGED <<inputVars, text_mask, predicted, duration, last_denoised,
                   vocoder_in, callVars, bufferVars, infer_result, normalized>>
    /\ UNCHANGED notPipelineVars

\* _infer, helper.cpp:435-504: one iteration of the denoising loop
RunDenoiser ==
    /\ pc = "denoise"
    /\ LoopContinues(step, total_step)
    /\ g_tensor_buffers_float' = g_tensor_buffers_float + 3
    /\ vector_est_inputs' =
          Append(vector_est_inputs,
                 VectorEstInputs(text_emb_vec, style.ttl, text_mask, latent_mask,
                                 total_step, step, Len(InferTexts)))
    /\ LET current_step_vec == [b \in 1..Len(InferTexts) |-> step]
       IN \/ /\ calls' = Append(calls, Invocation("vector_estimator", current_step_vec, FALSE))
             /\ Throw("ModelExecution")
             /\ UNCHANGED <<xt, step, last_denoised>>
          \/ \E denoised \in DenoisedTensors(xt) :
                /\ calls' = Append(calls, Invocation("vector_estimator", current_step_vec, TRUE))
                /\ last_denoised' = denoised
                /\ xt' = UpdateLatent(xt, denoised)
                /\ step' = step + 1
                /\ UNCHANGED <<pc, result, error>>
    /\ UNCHANGED <<inputVars, text_mask, text_emb_vec, predicted, duration,
                   latent_mask, vocoder_in, callVars,
                   g_tensor_buffers_int64, infer_result, normalized>>
    /\ UNCHANGED notPipelineVars

\* _infer, helper.cpp:506-528, and the return of batch (helper.cpp:575)
RunVocoder ==
    /\ pc = "denoise"
    /\ ~LoopContinues(step, total_step)
    /\ g_tensor_buffers_float' = g_tensor_buffers_float + 1
    /\ vocoder_in' = xt
    /\ \/ /\ calls' = Append(calls, Invocation("vocoder", <<>>, FALSE))
          /\ Throw("ModelExecution")
          /\ UNCHANGED infer_result
       \/ \E wav \in Waveforms(Len(InferTexts)) :
             LET returned == [returned |-> TRUE, wav |-> wav, duration |-> duration]
             IN /\ calls' = Append(calls, Invocation("vocoder", <<>>, TRUE))
                /\ infer_result' = returned
                /\ IF mode = "batch"
                   THEN pc' = "done" /\ result' = returned
                   ELSE pc' = "stitch" /\ UNCHANGED result
                /\ UNCHANGED error
    /\ UNCHANGED <<inputVars, text_mask, text_emb_vec, vector_est_inputs, predicted,
                   duration, xt, latent_mask, step, last_denoised,
                   callVars, g_tensor_buffers_int64, normalized>>
    /\ UNCHANGED notPipelineVars

\* TextToSpeech::call, helper.cpp:547-565: the loop body after _infer has
\* returned, then the next chunk or the return of final_result
Stitch ==
    /\ pc = "stitch"
    /\ chunk_results' = Append(chunk_results, infer_result)
    /\ chunk_starts' = Append(chunk_starts,
                              IF wav_cat = <<>> THEN 0
                              ELSE Len(wav_cat) + Samples(silence_duration))
    /\ LET new_wav_cat ==
               IF wav_cat = <<>>
               THEN infer_result.wav
               ELSE wav_cat \o Zeros(Samples(silence_duration)) \o infer_result.wav
           new_dur_cat ==
               IF wav_cat = <<>>
               THEN infer_result.duration[1]
               ELSE dur_cat + infer_result.duration[1] + silence_duration
       IN /\ wav_cat' = new_wav_cat
          /\ dur_cat' = new_dur_cat
          /\ IF chunk_i < Len(text_list)
             THEN /\ chunk_i' = chunk_i + 1
                  /\ pc' = "infer"
                  /\ UNCHANGED result
             ELSE /\ result' = [returned |-> TRUE, wav |-> new_wav_cat,
                                duration |-> <<new_dur_cat>>]
                  /\ pc' = "done"
                  /\ UNCHANGED chunk_i
    /\ UNCHANGED <<inputVars, inferVars, text_list, chunked, bufferVars,
                   infer_result, error, calls, normalized>>
    /\ UNCHANGED notPipelineVars

\* main after a call has returned: clearTensorBuffers() empties both global
\* buffer lists (helper.cpp:17-20, called at part_001:104); nothing in
\* call, batch or _infer does
ClearTensorBuffers ==
    /\ pc = "done"
    /\ pc' = "cleared"
    /\ g_tensor_buffers_float' = 0
    /\ g_tensor_buffers_int64' = 0
    /\ UNCHANGED <<inputVars, inferVars, callVars, infer_result, result,
                   error, calls, normalized>>
    /\ UNCHANGED notPipelineVars

NextPipeline ==
    \/ CallEntry
    \/ BatchEntry
    \/ InferBegin
    \/ RunDurationPredictor
    \/ RunTextEncoder
    \/ RunDenoiser
    \/ RunVocoder
    \/ Stitch
    \/ ClearTensorBuffers

SpecPipeline == InitPipeline /\ [][NextPipeline]_vars

\* ------------------------------------------------------------------------
\* SpecSegment: the extraction of one item's samples from the flattened
\* vocoder output [bsz, P], by main of the C++ example and by
\* extractWavSegment of the Go port, for every waveform, duration and item
\* within the bounds
\* ------------------------------------------------------------------------
SegSampleValues == {1, 2}        \* samples of the waveform
PastEndValues == {0, 1}          \* what a read past the end of wav can yield

\* wavOut of extractWavSegment (part_000:626-642): wavLen cells, zero where
\* wavStart + j is not a position of wav
extractWavSegment(wav, dur, sampleRate, index, batchSize) ==
    LET wavLen == (sampleRate * dur) \div DurDen
        wavPerBatch == Len(wav) \div batchSize
        wavStart == index * wavPerBatch
    IN [j \in 1..wavLen |->
           IF wavStart + j <= Len(wav) THEN wav[wavStart + j] ELSE 0]

\* wav_out of main (part_001:91-96): the range [b * wav_shape_1,
\* b * wav_shape_1 + wav_len) of result.wav; past_end holds what the reads
\* behind result.wav.end() yield
WavOut(wav, dur, b, bsz, past_end) ==
    LET wav_len == Samples(dur)
        wav_shape_1 == Len(wav) \div bsz
    IN [j \in 1..wav_len |->
           IF b * wav_shape_1 + j <= Len(wav)
           THEN wav[b * wav_shape_1 + j]
           ELSE past_end[b * wav_shape_1 + j - Len(wav)]]

InitSegment ==
    /\ seg_pc = "ready"
    /\ seg_bsz \in 1..MaxBatch
    /\ seg_wav \in UNION {[1..(seg_bsz * P) -> SegSampleValues] : P \in 0..MaxWavLen}
    /\ seg_duration \in 0..(2 * MaxDurPred)
    /\ seg_index \in 0..(seg_bsz - 1)
    /\ seg_out = <<>>
    /\ seg_read = {}
    /\ ChunkIdle
    /\ MaskIdle
    /\ TextIdle
    /\ PipelineIdle
    /\ ScaffoldIdle

\* Go port: the loop stops at the end of wav, the rest of wavOut stays zero
ExtractWavSegmentCall ==
    /\ seg_pc = "ready"
    /\ seg_pc' = "extractWavSegment"
    /\ seg_out' = extractWavSegment(seg_wav, seg_duration, sample_rate_,
                                    seg_index, seg_bsz)
    /\ seg_read' = LET wavStart == seg_index * (Len(seg_wav) \div seg_bsz)
                       wavLen == (sample_rate_ * seg_duration) \div DurDen
                   IN {wavStart + j : j \in 1..wavLen} \cap (1..Len(seg_wav))
    /\ UNCHANGED <<seg_wav, seg_duration, seg_bsz, seg_index>>
    /\ UNCHANGED notSegmentVars

\* C++ example: the range is not clamped; when it ends behind the end of
\* result.wav the behaviour is undefined: the program crashes, or the copy
\* completes with whatever the memory behind the buffer holds
MainWavOut ==
    /\ seg_pc = "ready"
    /\ LET wav_shape_1 == Len(seg_wav) \div seg_bsz
           wav_end == seg_index * wav_shape_1 + Samples(seg_duration)
           over == IF wav_end > Len(seg_wav) THEN wav_end - Len(seg_wav) ELSE 0
       IN /\ seg_read' = (seg_index * wav_shape_1 + 1)..wav_end
          /\ \/ /\ over > 0
                /\ seg_pc' = "crashed"
                /\ seg_out' = <<>>
             \/ \E past_end \in [1..over -> PastEndValues] :
                   /\ seg_pc' = "main"
                   /\ seg_out' = WavOut(seg_wav, seg_duration, seg_index,
                                        seg_bsz, past_end)
    /\ UNCHANGED <<seg_wav, seg_duration, seg_bsz, seg_index>>
    /\ UNCHANGED notSegmentVars

NextSegment == ExtractWavSegmentCall \/ MainWavOut

SpecSegment == InitSegment /\ [][NextSegment]_vars

\* ------------------------------------------------------------------------
\* SpecScaffold: sampleNoisyLatent applied to a batch and to a permutation
\* of it, with the random source drawing the same values for each item
\* ------------------------------------------------------------------------
BatchPermutations(n) ==
    {perm \in [1..n -> 1..n] : \A i, j \in 1..n : perm[i] = perm[j] => i = j}

\* item i of the permuted batch is item perm[i] of the batch
Permuted(seq, perm) == [i \in 1..Len(seq) |-> seq[perm[i]]]

InitScaffold ==
    /\ snl_pc = "ready"
    /\ snl_duration \in UNION {[1..n -> 0..MaxScaffoldDur] : n \in 1..MaxBatch}
    /\ snl_noise \in NoiseTensors(snl_duration)
    /\ snl_perm \in BatchPermutations(Len(snl_duration))
    /\ snl_out = <<>>
    /\ snl_permuted = <<>>
    /\ ChunkIdle
    /\ MaskIdle
    /\ TextIdle
    /\ PipelineIdle
    /\ SegmentIdle

SampleNoisyLatentCall ==
    /\ snl_pc = "ready"
    /\ snl_pc' = "sampled"
    /\ snl_out' = sampleNoisyLatent(snl_duration, snl_noise)
    /\ UNCHANGED <<snl_duration, snl_noise, snl_perm, snl_permuted>>
    /\ UNCHANGED notScaffoldVars

SampleNoisyLatentPermuted ==
    /\ snl_pc = "sampled"
    /\ snl_pc' = "permuted"
    /\ snl_permuted' = sampleNoisyLatent(Permuted(snl_duration, snl_perm),
                                         Permuted(snl_noise, snl_perm))
    /\ UNCHANGED <<snl_duration, snl_noise, snl_perm, snl_out>>
    /\ UNCHANGED notScaffoldVars

NextScaffold == SampleNoisyLatentCall \/ SampleNoisyLatentPermuted

SpecScaffold == InitScaffold /\ [][NextScaffold]_vars

\* ========================================================================
\* Properties
\* ========================================================================

\* ceil(w / k) for w >= 0, k >= 1: the least n with n * k >= w
CeilDiv(w, k) == CHOOSE n \in 0..w : n * k >= w /\ (n = 0 \/ (n - 1) * k < w)

\* the largest member of a non-empty list, stated without MaxElement
IsLargest(m, seq) ==
    /\ \E i \in 1..Len(seq) : seq[i] = m
    /\ \A i \in 1..Len(seq) : seq[i] <= m

\* rows[i][1] has width `width`, 1 at the positions j < lens[i] and 0 at the
\* others (positions counted from 0 as in the source)
IsMaskOf(rows, lens, width) ==
    /\ Len(rows) = Len(lens)
    /\ \A i \in 1..Len(lens) :
          /\ Len(rows[i]) = 1
          /\ Len(rows[i][1]) = width
          /\ \A j \in 0..(width - 1) :
                rows[i][1][j + 1] = (IF j < lens[i] THEN 1 ELSE 0)

\* C7: for every non-empty list of lengths L, lengthToMask(L) has one row per
\* item, each of width max(L), and entry [i][0][j] is 1.0 iff j < L[i] and
\* 0.0 otherwise.
C7_LengthToMask ==
    mk_pc = "lengthToMask" =>
        \E width \in 0..(MaxLength + 1) :
            /\ IsLargest(width, mk_lengths)
            /\ IsMaskOf(mk_mask, mk_lengths, width)

C7_Witness ==
    /\ mk_pc = "lengthToMask"
    /\ mk_lengths = <<2, 4>>
    /\ mk_mask = << << <<1, 1, 0, 0>> >>, << <<1, 1, 1, 1>> >> >>

\* C8: getLatentMask converts each wav-sample length w to the latent-frame
\* length ceil(w / (base_chunk_size * chunk_compress_factor)); the mask width
\* is the largest derived length of the batch and row i has exactly its own
\* derived length of leading 1.0 entries, the rest of the row being 0.0.
DerivedLengths ==
    [i \in 1..Len(mk_lengths) |->
        CeilDiv(mk_lengths[i], mk_base_chunk_size * mk_chunk_compress_factor)]

C8_LatentMask ==
    mk_pc = "getLatentMask" =>
        \E width \in 0..(MaxLength + 1) :
            /\ IsLargest(width, DerivedLengths)
            /\ IsMaskOf(mk_mask, DerivedLengths, width)

C8_Witness ==
    /\ mk_pc = "getLatentMask"
    /\ \E i, j \in 1..Len(mk_lengths) :
          /\ DerivedLengths[i] < DerivedLengths[j]
          /\ mk_lengths[i] % (mk_base_chunk_size * mk_chunk_compress_factor) # 0
          /\ mk_mask[i][1][DerivedLengths[i]] = 1
          /\ mk_mask[i][1][DerivedLengths[j]] = 0

\* the text is empty or consists of whitespace only
IsBlank(text) == \A k \in 1..Len(text) : text[k] \in Space

\* C9 as stated: chunkText returns at least one chunk and every returned
\* chunk is a non-empty string, for every text (empty and whitespace-only
\* text included) and every max_len.
C9_Original ==
    ck_pc = "done" =>
        /\ Len(ck_chunks) >= 1
        /\ \A c \in 1..Len(ck_chunks) : ck_chunks[c] # <<>>

\* C9 amended: chunkText returns at least one chunk; for a text that is empty
\* or whitespace-only it returns exactly one chunk, the empty string, and for
\* every other text every returned chunk is a non-empty string.
C9_AtLeastOneChunk ==
    ck_pc = "done" =>
        /\ Len(ck_chunks) >= 1
        /\ IsBlank(ck_text) => ck_chunks = << <<>> >>
        /\ ~IsBlank(ck_text) => \A c \in 1..Len(ck_chunks) : ck_chunks[c] # <<>>

C9_Witness ==
    /\ ck_pc = "done"
    /\ ck_text # <<>>
    /\ IsBlank(ck_text)
    /\ ck_chunks = << <<>> >>

IsSingleSentence(chunk, text) ==
    LET paragraphs == Paragraphs(text)
    IN \E p \in 1..Len(paragraphs) :
          LET sentences == Sentences(paragraphs[p])
          IN \E k \in 1..Len(sentences) : chunk = trim(sentences[k])

InvocationsOf(model, r) ==
    SelectSeq(calls, LAMBDA c : c.model = model /\ c.run = r)

AllInvocationsOf(model) == SelectSeq(calls, LAMBDA c : c.model = model)

\* the pipeline runs (_infer calls) started so far are 1..RunsStarted
RunsStarted == IF calls = <<>> THEN 0 ELSE calls[Len(calls)].run

\* batch size of the pipeline runs of this call
RunBsz == IF mode = "batch" THEN Len(in_texts) ELSE 1

\* the pipeline runs of a completed call: one per chunk, or the one batch run
RunsOfCall == IF mode = "batch" THEN 1 ELSE Len(text_list)

\* C1 as stated: a synthesis call with total_step = N invokes the denoiser
\* exactly N times, the k-th invocation with current_step = k in every item.
C1_Original ==
    pc = "done" =>
        LET D == AllInvocationsOf("vector_estimator")
        IN /\ Len(D) = total_step
           /\ \A k \in 1..Len(D) :
                 D[k].current_step = [b \in 1..RunBsz |-> k - 1]

\* C1 amended: every pipeline run (_infer: one per chunk in long-form mode, one
\* per batch call) invokes the denoiser with current_step = 0, 1, 2, .. in
\* strictly increasing order, every item of the vector holding the same value,
\* no step skipped or repeated, never more than total_step times, and exactly
\* total_step times once the run has reached the vocoder; a call that
\* completes over n pipeline runs has invoked the denoiser n * total_step times.
C1_DenoiserStepsPerRun ==
    /\ \A r \in 1..RunsStarted :
          LET D == InvocationsOf("vector_estimator", r)
          IN /\ Len(D) <= total_step
             /\ \A k \in 1..Len(D) :
                   D[k].current_step = [b \in 1..RunBsz |-> k - 1]
             /\ InvocationsOf("vocoder", r) # <<>> => Len(D) = total_step
    /\ pc = "done" =>
          Len(AllInvocationsOf("vector_estimator")) = RunsOfCall * total_step

C1_Witness ==
    /\ pc = "done"
    /\ mode = "longform"
    /\ Len(text_list) = 2
    /\ total_step = 2
    /\ Len(AllInvocationsOf("vector_estimator")) = 4
    /\ InvocationsOf("vector_estimator", 2)[2].current_step = <<1>>

\* the order of the model invocations of one complete pipeline run
ExpectedOrder ==
    <<"duration_predictor", "text_encoder">>
        \o [k \in 1..total_step |-> "vector_estimator"]
        \o <<"vocoder">>

\* C2: in one pipeline run the models are invoked in the order duration
\* predictor (once), text encoder (once), denoiser (total_step times), vocoder
\* (once); a model is invoked only after the previous invocation has returned
\* its output; and the vocoder receives the latent produced by the last
\* denoiser step (total_step >= 1).
C2_StageOrder ==
    /\ \A i \in 1..Len(calls) :
          /\ i < Len(calls) => calls[i].ok /\ calls[i].run <= calls[i + 1].run
    /\ \A r \in 1..RunsStarted :
          LET R == SelectSeq(calls, LAMBDA c : c.run = r)
          IN /\ Len(R) <= Len(ExpectedOrder)
             /\ \A k \in 1..Len(R) : R[k].model = ExpectedOrder[k]
             /\ r < RunsStarted => Len(R) = Len(ExpectedOrder)
    /\ (calls # <<>> /\ calls[Len(calls)].model = "vocoder" /\ total_step >= 1) =>
          vocoder_in = last_denoised

C2_Witness ==
    /\ pc = "done"
    /\ mode = "batch"
    /\ total_step = 2
    /\ [k \in 1..Len(calls) |-> calls[k].model] = ExpectedOrder
    /\ vocoder_in = last_denoised
    /\ Len(vocoder_in) = 2
    /\ Len(vocoder_in[1][1]) >= 1

\* the number of texts differs from the style batch size
MismatchInput ==
    \/ mode = "batch" /\ Len(in_texts) # style_bsz
    \/ mode = "longform" /\ style_bsz # 1

\* C3: when the number of texts differs from the style batch size (batch
\* mode: len(texts) # style batch; long-form mode: style batch # 1) the call
\* reports an input-mismatch error and aborts before any model is invoked and
\* before any text is normalized or chunked.
C3_MismatchAbortsFirst ==
    /\ MismatchInput =>
          /\ calls = <<>>
          /\ normalized = 0
          /\ ~chunked
          /\ result = NoResult
          /\ pc \in {"start", "error"} \/ (mode = "batch" /\ pc = "infer")
          /\ pc = "error" => error = "InputMismatch"
    /\ error = "InputMismatch" => MismatchInput

C3_Witness ==
    /\ pc = "error"
    /\ error = "InputMismatch"
    /\ mode = "batch"
    /\ Len(in_texts) = 2
    /\ style_bsz = 1
    /\ calls = <<>>

\* C4: if a model invocation fails at any stage the call aborts: no later
\* model is invoked, nothing is retried and no waveform is returned; in
\* long-form mode a failure in chunk k returns none of the audio of the
\* chunks before k.
C4_FailureAborts ==
    /\ \A i \in 1..Len(calls) :
          ~calls[i].ok =>
              /\ i = Len(calls)
              /\ pc = "error"
              /\ error = "ModelExecution"
              /\ result = NoResult
    /\ pc = "error" => ~result.returned /\ result.wav = <<>>

C4_Witness ==
    /\ pc = "error"
    /\ mode = "longform"
    /\ chunk_i = 2
    /\ wav_cat # <<>>
    /\ ~calls[Len(calls)].ok
    /\ calls[Len(calls)].run = 2
    /\ result = NoResult

RECURSIVE SumDurations(_)
SumDurations(results) ==
    IF results = <<>> THEN 0
    ELSE Head(results).duration[1] + SumDurations(Tail(results))

\* C5: in long-form mode over n >= 1 chunks the returned total duration is the
\* sum of the n per-chunk (speed-adjusted) durations plus
\* silence_duration * (n - 1), for every sequence of per-chunk results,
\* chunks whose vocoder waveform is empty included.
C5_TotalDuration ==
    (pc = "done" /\ mode = "longform") =>
        result.duration =
            <<SumDurations(chunk_results)
                + silence_duration * (Len(chunk_results) - 1)>>

RECURSIVE StitchedWaveform(_)
StitchedWaveform(results) ==
    IF Len(results) = 1 THEN results[1].wav
    ELSE StitchedWaveform(SubSeq(results, 1, Len(results) - 1))
            \o Zeros(Samples(silence_duration))
            \o results[Len(results)].wav

\* C6: in long-form mode the returned waveform is the per-chunk waveforms in
\* chunk order with exactly int(silence_duration * sample_rate) zero samples
\* between every two consecutive chunks, none before the first chunk and none
\* after the last one.
C6_StitchedWaveform ==
    (pc = "done" /\ mode = "longform") =>
        result.wav = StitchedWaveform(chunk_results)

\* ------------------------------------------------------------------------
\* Properties of chunkText: packing and content
\* ------------------------------------------------------------------------
\* the sentences joined by single spaces, as current_chunk holds them
RECURSIVE JoinSentences(_)
JoinSentences(sentences) ==
    IF sentences = <<>> THEN <<>>
    ELSE IF Len(sentences) = 1 THEN sentences[1]
    ELSE JoinSentences(SubSeq(sentences, 1, Len(sentences) - 1))
            \o <<SP>> \o sentences[Len(sentences)]

\* chunks are the greedy packing of the sentences: the first chunk holds the
\* first k sentences, each sentence after the first one was added because
\* len(chunk) + len(sentence) + 1 <= max_len held, and the sentence after the
\* k-th one (if any) starts the next chunk because it did not hold
RECURSIVE IsGreedyPacking(_, _, _)
IsGreedyPacking(chunks, sentences, max_len) ==
    IF sentences = <<>> THEN chunks = <<>>
    ELSE /\ chunks # <<>>
         /\ \E k \in 1..Len(sentences) :
               /\ Head(chunks) = trim(JoinSentences(SubSeq(sentences, 1, k)))
               /\ \A j \in 2..k :
                     Len(JoinSentences(SubSeq(sentences, 1, j - 1)))
                        + Len(sentences[j]) + 1 <= max_len
               /\ k < Len(sentences) =>
                     Len(JoinSentences(SubSeq(sentences, 1, k)))
                        + Len(sentences[k + 1]) + 1 > max_len
               /\ IsGreedyPacking(Tail(chunks),
                                  SubSeq(sentences, k + 1, Len(sentences)),
                                  max_len)

\* the chunks are the greedy packings of the paragraphs, one after the other
RECURSIVE IsPackingOfParagraphs(_, _, _)
IsPackingOfParagraphs(chunks, paragraphs, max_len) ==
    IF paragraphs = <<>> THEN chunks = <<>>
    ELSE \E k \in 0..Len(chunks) :
            /\ IsGreedyPacking(SubSeq(chunks, 1, k),
                               Sentences(Head(paragraphs)), max_len)
            /\ IsPackingOfParagraphs(SubSeq(chunks, k + 1, Len(chunks)),
                                     Tail(paragraphs), max_len)

TwoSentences == <<"a", ".", SP, "a", ".">>

NonSpace(text) == SelectSeq(text, LAMBDA c : c \notin Space)

\* the text is a fixed point of preprocessText
IsNormalized(text) == preprocessText(Bytes(text)) = Bytes(text)

\* C11: for every normalized text and every max_len, the chunks of chunkText
\* joined by single spaces reproduce the content of the text modulo
\* whitespace: every sentence appears exactly once, with its terminator, in
\* its original order, and nothing is dropped, duplicated or reordered.
C11_ChunksReproduceText ==
    (ck_pc = "done" /\ IsNormalized(ck_text)) =>
        NonSpace(JoinSentences(ck_chunks)) = NonSpace(ck_text)

\* ------------------------------------------------------------------------
\* Properties of preprocessText and UnicodeProcessor::call
\* ------------------------------------------------------------------------
\* C13: preprocessText is idempotent: for every text, applying it to its own
\* output gives that output again.
C13_Idempotent ==
    up_pc = "preprocessText again" => up_result2 = up_result

\* the marks preprocessText names as ending punctuation (helper.cpp:164-180)
TerminalPunctuation ==
    {<<c>> : c \in ends_with_punct_chars} \cup ends_with_punct_literals

\* the text ends with one of the terminal punctuation marks
EndsInTerminal(text) ==
    \E mark \in TerminalPunctuation :
        /\ Len(mark) <= Len(text)
        /\ SubSeq(text, Len(text) - Len(mark) + 1, Len(text)) = mark

\* C14: the output of preprocessText is empty or ends in terminal
\* punctuation: "." is appended exactly when the cleaned text is non-empty
\* and does not already end in terminal punctuation, and nothing is appended
\* to an empty cleaned text.
C14_TerminalPeriod ==
    up_pc = "preprocessText" =>
        LET cleaned == CleanText(up_text_list[1])
        IN /\ up_result = <<>> \/ EndsInTerminal(up_result)
           /\ up_result =
                 IF cleaned # <<>> /\ ~EndsInTerminal(cleaned)
                 THEN cleaned \o Bytes(<<".">>)
                 ELSE cleaned

\* C15: for every position of a processed text whose character value is not
\* below the length of the indexer table, the id at that position is -1.
C15_OutOfVocabulary ==
    up_pc = "call" =>
        \A i \in 1..Len(up_processed_texts) :
            \A j \in 1..Len(up_processed_texts[i]) :
                textToUnicodeValues(up_processed_texts[i])[j] >= Len(up_indexer)
                    => up_text_ids[i][j] = -1

\* number of Unicode scalar values of a UTF-8 text: every byte that is not a
\* continuation byte starts one
ScalarValues(text) ==
    Cardinality({k \in 1..Len(text) : text[k] \notin ContinuationByte})

\* number of 1 entries of a mask row
Ones(row) == Cardinality({j \in 1..Len(row) : row[j] = 1})

\* C16: for every text, the number of ids and the number of 1 entries of its
\* text_mask row both equal the number of Unicode scalar values of the
\* processed text, texts with multi-byte characters included.
C16_OneIdPerScalarValue ==
    up_pc = "call" =>
        \A i \in 1..Len(up_processed_texts) :
            /\ Ones(up_text_mask[i][1]) = ScalarValues(up_processed_texts[i])
            /\ \A j \in (ScalarValues(up_processed_texts[i]) + 1)..Len(up_text_ids[i]) :
                  up_text_ids[i][j] = 0

\* ------------------------------------------------------------------------
\* Properties of the synthesis call: speed
\* ------------------------------------------------------------------------
\* C17: for every speed > 0 the duration of each item is the duration
\* model's prediction divided by speed, in _infer and in the result it
\* returns (strictly shorter than the prediction when speed > 1 and the
\* prediction is positive), and the latent scaffold is sized from the
\* adjusted durations: its width is ceil(int(max(prediction) / speed *
\* sample_rate) / chunk_size) and the mask row of an item has
\* ceil(int(prediction / speed * sample_rate) / chunk_size) leading ones.
C17_SpeedScalesDuration ==
    LET chunk_size == base_chunk_size_ * chunk_compress_factor_
        bsz == Len(predicted)
    IN /\ pc \in {"text_encoder", "denoise", "stitch"} =>
             \A b \in 1..bsz :
                /\ duration[b] * speed = predicted[b]
                /\ (speed > 1 /\ predicted[b] > 0) => duration[b] < predicted[b]
       /\ (pc = "stitch" \/ (pc = "done" /\ mode = "batch")) =>
             \A b \in 1..bsz : infer_result.duration[b] * speed = predicted[b]
       /\ pc = "denoise" =>
             \A b \in 1..bsz :
                /\ \A d \in 1..Len(xt[b]) :
                      Len(xt[b][d]) =
                         CeilDiv((MaxElement(predicted) * sample_rate_)
                                    \div (DurDen * speed),
                                 chunk_size)
                /\ Ones(latent_mask[b][1]) =
                      CeilDiv((predicted[b] * sample_rate_) \div (DurDen * speed),
                              chunk_size)

\* a batch call at speed 2 returned: the scaffold of the longest prediction
\* (2 s) was one frame wide, where the unadjusted duration needs two
C17_Witness ==
    /\ pc = "done"
    /\ mode = "batch"
    /\ speed = 2
    /\ \E b \in 1..Len(predicted) :
          /\ predicted[b] = 2 * MaxDurPred
          /\ result.duration[b] = MaxDurPred
    /\ \A b \in 1..Len(vocoder_in) : \A d \in 1..Len(vocoder_in[b]) :
          /\ Len(vocoder_in[b][d]) = 1
          /\ CeilDiv(MaxElement(predicted) * sample_rate_,
                     DurDen * base_chunk_size_ * chunk_compress_factor_) = 2

\* ------------------------------------------------------------------------
\* Properties of the synthesis call: process-wide state
\* ------------------------------------------------------------------------
\* C18: when a synthesis call has ended, by returning or by throwing, the
\* process-wide state is what it was before the call: both global tensor
\* buffer lists are empty again.
C18_NoGlobalState ==
    pc \in {"done", "error"} =>
        /\ g_tensor_buffers_float = 0
        /\ g_tensor_buffers_int64 = 0

\* ------------------------------------------------------------------------
\* Properties of the segment extraction
\* ------------------------------------------------------------------------
\* round(d * sample_rate) for a duration d >= 0 in units, halves away from
\* zero
RoundSamples(d) == (2 * d * sample_rate_ + DurDen) \div (2 * DurDen)

\* C19: the segment handed to the caller for item i is exactly the first
\* round(duration[i] * sampleRate) samples of the item's own slice
\* [i*P, (i+1)*P) of the flattened vocoder output, P = len(wav) / batchSize;
\* the extraction reads no sample of another item's slice and nothing past
\* the end of the waveform.
C19_SegmentOfOwnSlice ==
    seg_pc \notin {"idle", "ready"} =>
        LET P == Len(seg_wav) \div seg_bsz
        IN /\ seg_pc # "crashed"
           /\ Len(seg_out) = RoundSamples(seg_duration)
           /\ \A j \in 1..Len(seg_out) :
                 /\ j <= P
                 /\ seg_out[j] = seg_wav[seg_index * P + j]
           /\ seg_read \subseteq (seg_index * P + 1)..((seg_index + 1) * P)

\* ------------------------------------------------------------------------
\* Properties of the latent scaffold
\* ------------------------------------------------------------------------
\* the mask row of an item of duration d in a batch whose longest duration
\* is max_d
OwnMaskRow(d, max_d) ==
    LET chunk_size == base_chunk_size_ * chunk_compress_factor_
    IN [t \in 1..CeilDiv(Samples(max_d), chunk_size) |->
           IF t <= CeilDiv(Samples(d), chunk_size) THEN 1 ELSE 0]

C21_ConstantDenoiserInputs ==
    /\ [](\A i \in 1..Len(vector_est_inputs) :
             LET in == vector_est_inputs[i]
             IN /\ in.text_emb = text_emb_vec
                /\ in.style_ttl = StyleOf(style_bsz).ttl
                /\ in.text_mask = text_mask
                /\ in.latent_mask = latent_mask
                /\ in.total_step = [b \in 1..Len(InferTexts) |-> total_step]
                /\ in.current_step = [b \in 1..Len(InferTexts) |-> i - 1]
                /\ \A j \in 1..Len(vector_est_inputs) :
                      LET other == vector_est_inputs[j]
                      IN /\ other.text_emb = in.text_emb
                         /\ other.style_ttl = in.style_ttl
                         /\ other.text_mask = in.text_mask
                         /\ other.latent_mask = in.latent_mask
                         /\ other.total_step = in.total_step
                         /\ (i # j => other.current_step # in.current_step))
    /\ [][style' = style]_vars

\* two denoiser runs of a two-item batch have happened and the call returned
C21_Witness ==
    /\ pc = "done"
    /\ mode = "batch"
    /\ Len(in_texts) = 2
    /\ Len(vector_est_inputs) = 2
    /\ vector_est_inputs[2].total_step = <<2, 2>>
    /\ vector_est_inputs[2].text_mask = << <<<<1, 1>>>>, <<<<1, 1>>>> >>
    /\ style = StyleOf(2)

\* the shape [B, D, T] of a latent: every row of an item has the same length
ShapeOf(latent) ==
    [b \in 1..Len(latent) |-> [d \in 1..Len(latent[b]) |-> Len(latent[b][d])]]

\* C22: a denoising step leaves the working latent equal to the
\* denoised_latent output of that step in every cell, with the shape
\* [B, D, T] it had before the step; and from the first step on, the latent
\* from which the next denoiser input (or the vocoder input) is built is
\* exactly the output of the latest step.
C22_LatentReplacedWholesale ==
    /\ [][step' = step + 1 =>
             /\ xt' = last_denoised'
             /\ ShapeOf(xt') = ShapeOf(xt)]_vars
    /\ []((pc = "denoise" /\ step >= 1) => xt = last_denoised)

\* the second step of a two-item batch has run; a cell that held noise
\* (-1 or 1 under a mask of 1) holds the 0 the denoiser returned
C22_Witness ==
    /\ pc = "denoise"
    /\ step = 2
    /\ Len(xt) = 2
    /\ Len(xt[2][1]) >= 1
    /\ latent_mask[2][1][1] = 1
    /\ xt[2][1][1] = 0
    /\ xt[1][1][1] = 1
    /\ xt = last_denoised

\* C23: in the latent sampleNoisyLatent returns, every cell [b][d][t] whose
\* frame index t (from 0) is at or past the item's derived latent length
\* ceil(wav_length[b] / (base_chunk_size * chunk_compress_factor)) is 0; an
\* item of duration 0 gets an all-zero latent.
C23_PaddingIsZero ==
    snl_pc \in {"sampled", "permuted"} =>
        \A b \in 1..Len(snl_duration) :
           LET latent_length ==
                   CeilDiv(Samples(snl_duration[b]),
                           base_chunk_size_ * chunk_compress_factor_)
               item == snl_out.noisy_latent[b]
           IN /\ \A d \in 1..Len(item) : \A t \in 1..Len(item[d]) :
                    t - 1 >= latent_length => item[d][t] = 0
              /\ snl_duration[b] = 0 =>
                    \A d \in 1..Len(item) : \A t \in 1..Len(item[d]) : item[d][t] = 0

\* an item of duration 0 next to one of 2 s: the first is all zero, the
\* second keeps its noise in both frames
C23_Witness ==
    /\ snl_pc = "sampled"
    /\ snl_duration = <<0, 4>>
    /\ snl_noise = << <<<<1, -1>>>>, <<<<-1, 1>>>> >>
    /\ snl_out.noisy_latent = << <<<<0, 0>>>>, <<<<-1, 1>>>> >>

\* C24: sampleNoisyLatent sizes the latent as [B, latent_dim *
\* chunk_compress_factor, latent_len] with latent_len = ceil(wav_len_max /
\* (base_chunk_size * chunk_compress_factor)), wav_len_max = max(duration) *
\* sample_rate, also when wav_len_max is not a whole number of samples.
C24_LatentShape ==
    snl_pc \in {"sampled", "permuted"} =>
        /\ Len(snl_out.noisy_latent) = Len(snl_duration)
        /\ \A b \in 1..Len(snl_duration) :
              /\ Len(snl_out.noisy_latent[b]) = ldim_ * chunk_compress_factor_
              /\ \A d \in 1..Len(snl_out.noisy_latent[b]) :
                    Len(snl_out.noisy_latent[b][d]) =
                       CeilDiv(MaxElement(snl_duration) * sample_rate_,
                               DurDen * base_chunk_size_ * chunk_compress_factor_)

ScalarValueAt(text, p) ==
    IF text[p] < 128 THEN text[p]
    ELSE IF text[p] < 224 THEN (text[p] - 192) * 64 + (text[p + 1] - 128)
    ELSE (text[p] - 224) * 4096 + (text[p + 1] - 128) * 64 + (text[p + 2] - 128)

\* the scalar values of a UTF-8 text, in order
ScalarsOf(text) ==
    LET starts == {k \in 1..Len(text) : text[k] \notin ContinuationByte}
        start(j) == CHOOSE p \in starts :
                       Cardinality({k \in starts : k <= p}) = j
    IN [j \in 1..Cardinality(starts) |-> ScalarValueAt(text, start(j))]

\* the id of a scalar value: its entry of the indexer table, -1 outside it
IdOf(value, indexer) ==
    IF value < Len(indexer) THEN indexer[value + 1] ELSE -1

\* C25: every text_ids row is as wide as the longest processed text of the
\* batch; row i holds the ids of text i at the positions below length[i]
\* and 0 at every position from length[i] on; text_mask has the width of
\* text_ids and 1 exactly at the positions below length[i].  The length of
\* a text is its number of characters, one id each.
C25_TextIdsPadding ==
    up_pc = "call" =>
        LET scalars == [i \in 1..Len(up_processed_texts) |->
                           ScalarsOf(up_processed_texts[i])]
            width == MaxElement([i \in 1..Len(scalars) |-> Len(scalars[i])])
        IN \A i \in 1..Len(scalars) :
              /\ Len(up_text_ids[i]) = width
              /\ Len(up_text_mask[i][1]) = width
              /\ \A j \in 1..Len(up_text_ids[i]) :
                    IF j <= Len(scalars[i])
                    THEN /\ up_text_ids[i][j] = IdOf(scalars[i][j], up_indexer)
                         /\ j <= Len(up_text_mask[i][1]) => up_text_mask[i][1][j] = 1
                    ELSE /\ up_text_ids[i][j] = 0
                         /\ j <= Len(up_text_mask[i][1]) => up_text_mask[i][1][j] = 0

\* ------------------------------------------------------------------------
\* Properties of preprocessText: spacing and replacements
\* ------------------------------------------------------------------------
\* the characters , . ! ? ; : '
PunctuationBytes == {44, 46, 33, 63, 59, 58, 39}

\* C26: the output of preprocessText has no whitespace character
\* immediately followed by one of , . ! ? ; : ' whatever whitespace the
\* input had.
C26_NoSpaceBeforePunctuation ==
    up_pc = "preprocessText" =>
        \A k \in 1..(Len(up_result) - 1) :
            ~(IsSpaceByte(up_result[k]) /\ up_result[k + 1] \in PunctuationBytes)

\* the byte sequence lit occurs in the text
Occurs(lit, text) ==
    \E k \in 1..(Len(text) - Len(lit) + 1) : SubSeq(text, k, k + Len(lit) - 1) = lit

\* the dash and quote variants of the replacement table and the ASCII
\* character each is replaced by
AsciiEquivalents ==
    { [from |-> replacements[k].from, to |-> replacements[k].to] :
        k \in {1, 2, 3, 6, 7, 8, 9} }

\* C27: preprocessText replaces dash and quote variants by their ASCII
\* equivalents rather than deleting them: when the input has an en dash, an
\* em dash or a non-breaking hyphen the output has a "-", and when it has a
\* curly double or single quote the output has the ASCII quote.
C27_VariantsReplaced ==
    up_pc = "preprocessText" =>
        \A variant \in AsciiEquivalents :
            Occurs(variant.from, up_text_list[1]) => Occurs(variant.to, up_result)

\* ------------------------------------------------------------------------
\* Properties of the long-form call: waveform against duration
\* ------------------------------------------------------------------------
\* the valid samples of a chunk result: the first int(duration *
\* sample_rate) samples of its waveform
ValidSamples(r) ==
    LET n == Samples(r.duration[1])
    IN SubSeq(r.wav, 1, IF n <= Len(r.wav) THEN n ELSE Len(r.wav))

\* int((sum of the durations of the first k chunks + k * silence_duration)
\* * sample_rate)
ChunkOffset(results, k) ==
    Samples(SumDurations(SubSeq(results, 1, k)) + k * silence_duration)

\* C29: in long-form mode the returned waveform and total duration agree:
\* the audio of chunk k (from 0) starts at sample offset
\* int((durations of the chunks before k + k * silence_duration) *
\* sample_rate) of the returned waveform, and all of its valid samples lie
\* within the first int(total duration * sample_rate) samples, which is
\* what a caller keeps.
C29_WaveformMatchesDuration ==
    (pc = "done" /\ mode = "longform") =>
        \A k \in 1..Len(chunk_results) :
            LET valid == ValidSamples(chunk_results[k])
            IN valid # <<>> =>
                  /\ chunk_starts[k] = ChunkOffset(chunk_results, k - 1)
                  /\ SubSeq(result.wav, chunk_starts[k] + 1,
                            chunk_starts[k] + Len(valid)) = valid
                  /\ chunk_starts[k] + Len(valid) <= Samples(result.duration[1])

\* ------------------------------------------------------------------------
\* Properties of chunkText: paragraphs
\* ------------------------------------------------------------------------
\* the text without its leading newlines
RECURSIVE SkipNewlines(_)
SkipNewlines(text) ==
    IF text # <<>> /\ Head(text) = NL THEN SkipNewlines(Tail(text)) ELSE text

\* the paragraphs of a text: the pieces between blank-line separators, a
\* separator being a maximal run of two or more newlines
RECURSIVE BlankLineParagraphs(_)
BlankLineParagraphs(text) ==
    LET breaks == {k \in 1..(Len(text) - 1) : text[k] = NL /\ text[k + 1] = NL}
    IN IF breaks = {} THEN <<text>>
       ELSE LET k == CHOOSE b \in breaks : \A other \in breaks : b <= other
            IN <<SubSeq(text, 1, k - 1)>>
                  \o BlankLineParagraphs(SkipNewlines(SubSeq(text, k, Len(text))))

\* the chunks of each non-blank paragraph taken alone, in paragraph order
RECURSIVE ChunksOfEach(_, _)
ChunksOfEach(paragraphs, max_len) ==
    IF paragraphs = <<>> THEN <<>>
    ELSE (IF IsBlank(Head(paragraphs)) THEN <<>>
          ELSE chunkText(Head(paragraphs), max_len))
         \o ChunksOfEach(Tail(paragraphs), max_len)

\* C30: no chunk of chunkText(text, max_len) holds text of two paragraphs:
\* the chunks are the chunks of the first paragraph, then those of the
\* second, and so on, whether or not the first sentence of a paragraph
\* would still fit into the last chunk of the paragraph before it.
C30_ChunksWithinParagraphs ==
    (ck_pc = "done" /\ ~IsBlank(ck_text)) =>
        ck_chunks = ChunksOfEach(BlankLineParagraphs(ck_text), ck_max_len)

\* two one-sentence paragraphs that would fit into one chunk of 6
\* characters ("a. a." has 5) are two chunks
C30_Witness ==
    /\ ck_pc = "done"
    /\ ck_text = <<"a", ".", NL, NL, "a", ".">>
    /\ ck_max_len = 6
    /\ ck_chunks = << <<"a", ".">>, <<"a", ".">> >>

====
